---- MODULE Spec2Model ----
(***************************************************************************)
(* The embedded graph engine of src/src/database/networkx_adapter.py: an   *)
(* in-memory undirected simple graph (networkx.Graph) with a label index,  *)
(* persisted as one JSON document with numbered backups.                   *)
(*                                                                         *)
(* Python dicts are functions from string keys to values, {**a, **b} is    *)
(* Merge(a, b).  A file is a record with a "kind" field: absent, empty     *)
(* (zero length), a document written by _save_graph, or one of the         *)
(* malformed shapes _load_graph distinguishes.                             *)
(***************************************************************************)
EXTENDS Integers, Sequences, FiniteSets, TLC

VARIABLES
    connected,      \* self._connected
    graph,          \* self.graph: [order, attrs, edges]
    nodesByLabel,   \* self._nodes_by_label: label -> set of node ids
    relCounter,     \* self._relationship_counter
    autoSave,       \* self.auto_save (fixed by the configuration)
    backupCount,    \* self.backup_count (fixed by the configuration)
    dataFile,       \* content of self.data_file
    tmpFile,        \* content of data_file.with_suffix('.tmp')
    backups,        \* content of data_file.with_suffix('.bak<i>'), i in 1..BakSlots
    uuidNext,       \* how many uuid4() relationship ids have been drawn
    ops,            \* how many operations have been issued (bounds the run)
    created,        \* history: node id -> the label argument of the create_node
                    \* call of this handle that made the node now present
    last,           \* the last operation: its name, arguments and outcome
    peer,           \* a second NetworkXAdapter of the process, on another
                    \* data file: its path and the files it alone can reach
    tasks           \* the coroutines of this handle's operations that the
                    \* event loop holds, and which of them is running

mem  == <<connected, graph, nodesByLabel, relCounter>>
cfg  == <<autoSave, backupCount>>
fs   == <<dataFile, tmpFile, backups>>
vars == <<connected, graph, nodesByLabel, relCounter, autoSave, backupCount,
          dataFile, tmpFile, backups, uuidNext, ops, created, last, peer, tasks>>

---------------------------------------------------------------------------
(* Bounds of the model                                                     *)

MaxBackup == 3      \* backup_count ranges over 0..MaxBackup
MaxUuid   == 2      \* at most this many relationship ids are drawn
MaxOps    == 4      \* at most this many operations in a run of Spec, SpecLoad
MaxOpsFS  == 5      \* at most this many operations in a run of SpecFS

BakSlots == MaxBackup + 1          \* one slot more than any configured count
UuidTable == <<"r1", "r2", "r3", "r4", "r5", "r6">>
Uuid(k) == UuidTable[k]            \* the k-th id uuid4() returns; all distinct

---------------------------------------------------------------------------
(* Dictionaries                                                            *)

EmptyMap == [k \in {} |-> ""]
Merge(a, b) ==
    [k \in DOMAIN a \cup DOMAIN b |-> IF k \in DOMAIN b THEN b[k] ELSE a[k]]
Without(m, keys) == [k \in DOMAIN m \ keys |-> m[k]]
Get(m, k, dflt) == IF k \in DOMAIN m THEN m[k] ELSE dflt

Range(s) == {s[i] : i \in DOMAIN s}
Last(s) == s[Len(s)]

---------------------------------------------------------------------------
(* Inputs                                                                  *)

NodeIds == {"a", "b"}
IdTable == <<"a", "b", "c">>       \* node ids in ascending string order
Rank(id) == CHOOSE i \in DOMAIN IdTable : IdTable[i] = id
NoId == "None"                     \* node_id=None: generate one
Labels == {"Rule", "Learnt"}
NodePropsIn ==
    { EmptyMap, [name |-> "x"], [label |-> "Learnt"], [node_id |-> "b"] }
RelTypesIn == {"LINK", " "}
EdgePropsIn ==
    { EmptyMap, [source |-> "x"], [start_node_id |-> "b"], [rel_id |-> "r9"] }
Directions == {"incoming", "outgoing", "both"}
DirectionsIn == Directions \cup {"sideways"}
RelIdsIn == {Uuid(k) : k \in 1..MaxUuid} \cup {"r9"}
NoType == "None"                   \* relationship_type=None
NoFilters == [k \in {} |-> ""]
NoLimit == -1                      \* stands for limit=None (no limit given)

---------------------------------------------------------------------------
(* The in-memory graph (networkx.Graph): nodes in insertion order, one     *)
(* attribute dict per node, one attribute dict per unordered pair of       *)
(* adjacent nodes.                                                         *)

EmptyGraph == [order |-> <<>>, attrs |-> EmptyMap, edges |-> EmptyMap]

HasNode(g, n) == n \in DOMAIN g.attrs
NumberOfNodes(g) == Len(g.order)
NumberOfEdges(g) == Cardinality(DOMAIN g.edges)
Neighbors(g, n) ==
    {m \in DOMAIN g.attrs : {n, m} \in DOMAIN g.edges}
Degree(g, n) ==
    Cardinality(Neighbors(g, n)) + (IF {n} \in DOMAIN g.edges THEN 1 ELSE 0)

AddNode(g, n, a) ==
    [g EXCEPT !.order = IF n \in DOMAIN g.attrs THEN @ ELSE Append(@, n),
              !.attrs = Merge(@, (n :> Merge(Get(g.attrs, n, EmptyMap), a)))]

\* Graph.add_edge: an existing edge between the pair keeps its dict, updated
AddEdge(g, u, v, a) ==
    [g EXCEPT !.edges =
        Merge(@, ({u, v} :> Merge(Get(g.edges, {u, v}, EmptyMap), a)))]

RemoveEdge(g, e) == [g EXCEPT !.edges = Without(@, {e})]

\* Graph.remove_node: the node and every edge incident to it
RemoveNode(g, n) ==
    [order |-> SelectSeq(g.order, LAMBDA m : m # n),
     attrs |-> Without(g.attrs, {n}),
     edges |-> Without(g.edges, {e \in DOMAIN g.edges : n \in e})]

---------------------------------------------------------------------------
(* Files                                                                   *)

Absent  == [kind |-> "absent"]          \* the path does not exist
Empty   == [kind |-> "empty"]           \* zero-length file
BadJson == [kind |-> "badjson"]         \* text json.load rejects (also a
                                        \* partially written document)
\* Shapes that parse as a JSON object and that _load_graph answers with an
\* empty graph: no "graph" key; "graph" not an object; no "graph.nodes";
\* "graph.nodes" not a list; "graph.links" present and not a list.
FallbackKinds ==
    {"badjson", "noGraph", "graphNotObject", "noNodes", "nodesNotList",
     "linksNotList"}
\* Shapes on which _load_graph raises something other than JSONDecodeError:
\* a top-level JSON value that is not an object (data.get: AttributeError),
\* bytes that are not text (UnicodeDecodeError), a "graph" with a node list
\* and no "links" key (node_link_graph: KeyError).
RaisingKinds == {"notObject", "undecodable", "noLinks"}
File(k) == [kind |-> k]

IsDoc(f) == f.kind = "doc"
Exists(f) == f # Absent

---------------------------------------------------------------------------
(* Persistence codec                                                       *)

\* G.edges(data=True) reports an edge from the endpoint that comes first in
\* node order.
EdgeSource(g, e) ==
    g.order[CHOOSE i \in DOMAIN g.order :
                /\ g.order[i] \in e
                /\ \A j \in DOMAIN g.order : g.order[j] \in e => i <= j]
EdgeTarget(g, e) ==
    IF Cardinality(e) = 1 THEN EdgeSource(g, e)
    ELSE CHOOSE n \in e : n # EdgeSource(g, e)

\* json_graph.node_link_data(G, edges="links"): {**attrs, "id": n} per node,
\* {**attrs, "source": u, "target": v} per edge.
NodeLinkNodes(g) ==
    [i \in DOMAIN g.order |-> Merge(g.attrs[g.order[i]], [id |-> g.order[i]])]
NodeLinkLinks(g) ==
    { Merge(g.edges[e], [source |-> EdgeSource(g, e), target |-> EdgeTarget(g, e)])
        : e \in DOMAIN g.edges }

\* The document _save_graph serializes.  list(set) has no defined order, so
\* each nodes_by_label list is kept as the set of its elements.
Encode(g, idx, ctr) ==
    [kind |-> "doc",
     nodes |-> NodeLinkNodes(g),
     links |-> NodeLinkLinks(g),
     nodes_by_label |-> idx,
     relationship_counter |-> ctr,
     node_count |-> NumberOfNodes(g),
     edge_count |-> NumberOfEdges(g)]

\* json_graph.node_link_graph(graph_data, edges="links"): a node per entry
\* keyed by its "id" with the remaining attributes, an edge per link keyed by
\* its "source" and "target" with the remaining attributes.
NodeLinkGraph(doc) ==
    LET ids   == [i \in DOMAIN doc.nodes |-> doc.nodes[i].id]
        entry(n) == doc.nodes[CHOOSE i \in DOMAIN doc.nodes : doc.nodes[i].id = n]
        pairs == {{l.source, l.target} : l \in doc.links}
        link(e) == CHOOSE l \in doc.links : {l.source, l.target} = e
    IN  [order |-> ids,
         attrs |-> [n \in Range(ids) |-> Without(entry(n), {"id"})],
         edges |-> [e \in pairs |-> Without(link(e), {"source", "target"})]]

\* A _load_graph without the check that "links" is a list (lines 571-577):
\* node_link_graph then fails on the links and the method raises.
LoadGraphNoLinksCheck(f, g, idx, ctr) ==
    IF f.kind \in {"absent", "empty"}
    THEN [graph |-> g, idx |-> idx, ctr |-> ctr, raised |-> FALSE]
    ELSE IF f.kind \in FallbackKinds \ {"linksNotList"}
    THEN [graph |-> EmptyGraph, idx |-> EmptyMap, ctr |-> 0, raised |-> FALSE]
    ELSE IF f.kind \in RaisingKinds \cup {"linksNotList"}
    THEN [graph |-> g, idx |-> idx, ctr |-> ctr, raised |-> TRUE]
    ELSE [graph |-> NodeLinkGraph(f),
          idx |-> Get(f, "nodes_by_label", EmptyMap),
          ctr |-> Get(f, "relationship_counter", 0),
          raised |-> FALSE]

\* _load_graph: what connect() leaves in memory for a given file content.
\* raised is TRUE when the method raises DatabaseConnectionError.  A
\* document whose "metadata" is missing, null or lacks a key has no such
\* field here and gets the default of metadata.get(key, default).
LoadGraph(f, g, idx, ctr) ==
    IF f.kind \in {"absent", "empty"}
    THEN [graph |-> g, idx |-> idx, ctr |-> ctr, raised |-> FALSE]
    ELSE IF f.kind \in FallbackKinds
    THEN [graph |-> EmptyGraph, idx |-> EmptyMap, ctr |-> 0, raised |-> FALSE]
    ELSE IF f.kind \in RaisingKinds
    THEN [graph |-> g, idx |-> idx, ctr |-> ctr, raised |-> TRUE]
    ELSE [graph |-> NodeLinkGraph(f),
          idx |-> Get(f, "nodes_by_label", EmptyMap),
          ctr |-> Get(f, "relationship_counter", 0),
          raised |-> FALSE]

---------------------------------------------------------------------------
(* Backup rotation and save, as the sequence of file-system states the     *)
(* calls of one fault-free _save_graph pass through.  A file system is     *)
(* [data, tmp, bak].                                                       *)

RECURSIVE RotateSteps(_, _)
\* _create_backup from loop index i downwards, then data -> .bak1
RotateSteps(i, f) ==
    IF i >= 1
    THEN IF ~Exists(f.bak[i])
         THEN RotateSteps(i - 1, f)
         ELSE LET a == [f EXCEPT !.bak[i + 1] = Absent]
                  b == [a EXCEPT !.bak[i + 1] = f.bak[i], !.bak[i] = Absent]
              IN  (IF Exists(f.bak[i + 1]) THEN <<a>> ELSE <<>>)
                    \o <<b>> \o RotateSteps(i - 1, b)
    ELSE LET a == [f EXCEPT !.bak[1] = Absent]
             b == [a EXCEPT !.bak[1] = f.data, !.data = Absent]
         IN  (IF Exists(f.bak[1]) THEN <<a>> ELSE <<>>) \o <<b>>

\* A rotation whose loop starts one index too high: range(backup_count, 0, -1)
BackupStepsOneTooMany(f, n) ==
    IF Exists(f.data) /\ n > 0 THEN RotateSteps(n, f) ELSE <<>>

\* The rotation steps of a save: none when the data file does not exist or
\* backup_count is 0.
BackupSteps(f, n) ==
    IF Exists(f.data) /\ n > 0 THEN RotateSteps(n - 1, f) ELSE <<>>

\* open(temp,'w'); json.dump partly done; dump done and file closed;
\* temp_file.replace(data_file)
WriteSteps(f, doc) ==
    << [f EXCEPT !.tmp = Empty],
       [f EXCEPT !.tmp = BadJson],
       [f EXCEPT !.tmp = doc],
       [f EXCEPT !.tmp = Absent, !.data = doc] >>

SaveSteps(f, doc, n) ==
    LET rot == BackupSteps(f, n)
        afterRot == IF rot = <<>> THEN f ELSE Last(rot)
    IN  rot \o WriteSteps(afterRot, doc)

\* Faults of one save.  "rot k": the k-th file operation of the rotation
\* raises, _create_backup logs it and the save goes on without the rest of
\* the rotation.  "open", "dump", "replace": that call of the write raises;
\* the except clause unlinks the temporary file when it exists and raises
\* DatabaseConnectionError.
NoFault == [at |-> "none", k |-> 0]
WriteFaults == {[at |-> w, k |-> 0] : w \in {"open", "dump", "replace"}}
RotFaults(f, n) == {[at |-> "rot", k |-> j] : j \in 1..Len(BackupSteps(f, n))}
Faults(f, n) == WriteFaults \cup RotFaults(f, n)

\* _save_graph: the file system it leaves and whether it returned normally
SaveGraph(f, doc, n, fault) ==
    LET rot == BackupSteps(f, n)
        done == IF fault.at = "rot"
                THEN (IF fault.k = 1 THEN f ELSE rot[fault.k - 1])
                ELSE (IF rot = <<>> THEN f ELSE Last(rot))
    IN  IF fault.at \in {"open", "dump", "replace"}
        THEN [fs |-> [done EXCEPT !.tmp = Absent], ok |-> FALSE]
        ELSE [fs |-> Last(WriteSteps(done, doc)), ok |-> TRUE]

---------------------------------------------------------------------------
(* Queries (pure)                                                          *)

None == "None"

IsReserved(props) == DOMAIN props \cap {"id", "_id", "node_id"} # {}
\* IsBlank without the strip(): only the empty string
IsBlankOnlyEmpty(t) == t = ""
IsBlank(t) == t \in {"", " "}             \* not relationship_type.strip()

\* the result dict get_node and get_nodes_by_label build for a node
NodeResult(g, n) ==
    Merge(g.attrs[n], [degree |-> Degree(g, n), neighbors |-> Neighbors(g, n)])

GetNode(g, n) == IF HasNode(g, n) THEN NodeResult(g, n) ELSE None

Matches(g, n, label, filters) ==
    /\ Get(g.attrs[n], "label", None) = label
    /\ \A k \in DOMAIN filters : Get(g.attrs[n], k, None) = filters[k]

RECURSIVE SortById(_)
\* results.sort(key=node_id): ascending node_id
SortById(ids) ==
    IF ids = {} THEN <<>>
    ELSE LET m == CHOOSE x \in ids : \A y \in ids : Rank(x) <= Rank(y)
         IN  <<m>> \o SortById(ids \ {m})

\* get_nodes_by_label: the loop over nodes in insertion order stops once
\* `limit` results are collected ("if limit and ...": never for None or 0); the collected
\* results are then sorted.  Returns the node ids of the result dicts.
GetNodesByLabelIds(g, label, filters, limit) ==
    LET hits == SelectSeq(g.order, LAMBDA n : Matches(g, n, label, filters))
        kept == IF limit > 0 /\ limit < Len(hits) THEN SubSeq(hits, 1, limit)
                ELSE hits
    IN  SortById(Range(kept))
GetNodesByLabel(g, label, filters, limit) ==
    LET ids == GetNodesByLabelIds(g, label, filters, limit)
    IN  [i \in DOMAIN ids |-> NodeResult(g, ids[i])]

\* get_relationships on an existing node with a valid direction: the set of
\* result dicts (the list follows adjacency order, which is not modelled)
RelResult(g, n, m) ==
    LET d == g.edges[{n, m}]
    IN  Merge(d, [start_node_id |-> Get(d, "start_node_id", n),
                  end_node_id   |-> Get(d, "end_node_id", m)])
RelationshipsOf(g, n, type, direction) ==
    { RelResult(g, n, m) : m \in
        { m \in Neighbors(g, n) :
            LET r == RelResult(g, n, m)
            IN  /\ ~(direction = "outgoing" /\ r.start_node_id # n)
                /\ ~(direction = "incoming" /\ r.end_node_id # n)
                /\ ~(type # NoType /\ type # "" /\ Get(g.edges[{n, m}], "type", None) # type) } }

\* get_relationships on a connected handle: [raised, result]
GetRelationships(g, n, type, direction) ==
    IF ~HasNode(g, n) THEN [raised |-> "none", result |-> {}]
    ELSE IF direction \notin Directions
    THEN [raised |-> "ValidationError", result |-> None]
    ELSE [raised |-> "none", result |-> RelationshipsOf(g, n, type, direction)]

---------------------------------------------------------------------------
(* Operations.  `last` records the call and how it ended: raised is "none" *)
(* or the exception class, result the returned value, saved whether the    *)
(* call ran _save_graph to completion, fault the file operation that       *)
(* failed during it ("none" when none did).                                *)

FS == [data |-> dataFile, tmp |-> tmpFile, bak |-> backups]
SetFS(f) == dataFile' = f.data /\ tmpFile' = f.tmp /\ backups' = f.bak

Returned(op, args, result) ==
    [op |-> op, args |-> args, raised |-> "none", result |-> result,
     saved |-> FALSE, fault |-> "none"]
Raised(op, args, exc) ==
    [op |-> op, args |-> args, raised |-> exc, result |-> None,
     saved |-> FALSE, fault |-> "none"]
\* the call returned after a _save_graph that ran to completion (a fault in
\* the backup rotation does not stop it)
Saved(op, args, result, fault) ==
    [op |-> op, args |-> args, raised |-> "none", result |-> result,
     saved |-> TRUE, fault |-> fault.at]
\* the call's _save_graph raised: "raise DatabaseConnectionError(...)"
SaveFailed(op, args, fault) ==
    [op |-> op, args |-> args, raised |-> "DatabaseConnectionError",
     result |-> None, saved |-> FALSE, fault |-> fault.at]

\* NotConnected without the raise: the call returns None instead
NotConnectedReturns(op, args) ==
    /\ ~connected
    /\ last' = Returned(op, args, None)
    /\ UNCHANGED <<mem, fs, uuidNext, created>>

NotConnected(op, args) ==
    /\ ~connected
    /\ last' = Raised(op, args, "DatabaseConnectionError")
    /\ UNCHANGED <<mem, fs, uuidNext, created>>

Rejected(op, args, exc) ==
    /\ last' = Raised(op, args, exc)
    /\ UNCHANGED <<mem, fs, uuidNext, created>>

Answered(op, args, result) ==
    /\ last' = Returned(op, args, result)
    /\ UNCHANGED <<mem, fs, uuidNext, created>>

\* A Commit that undoes the mutation when the save raises
CommitRollsBack(op, args, result, g, idx, ctr, fault) ==
    /\ UNCHANGED connected
    /\ IF autoSave
       THEN LET s == SaveGraph(FS, Encode(g, idx, ctr), backupCount, fault)
            IN  /\ fault \in {NoFault} \cup Faults(FS, backupCount)
                /\ SetFS(s.fs)
                /\ graph' = IF s.ok THEN g ELSE graph
                /\ nodesByLabel' = IF s.ok THEN idx ELSE nodesByLabel
                /\ relCounter' = IF s.ok THEN ctr ELSE relCounter
                /\ last' = IF s.ok THEN Saved(op, args, result, fault)
                           ELSE SaveFailed(op, args, fault)
       ELSE /\ fault = NoFault
            /\ graph' = g
            /\ nodesByLabel' = idx
            /\ relCounter' = ctr
            /\ UNCHANGED fs
            /\ last' = Returned(op, args, result)

\* The end of every mutating operation: memory holds the mutation, then
\* "if self.auto_save: await self._save_graph()", then the return.
Commit(op, args, result, g, idx, ctr, fault) ==
    /\ graph' = g
    /\ nodesByLabel' = idx
    /\ relCounter' = ctr
    /\ UNCHANGED connected
    /\ IF autoSave
       THEN LET s == SaveGraph(FS, Encode(g, idx, ctr), backupCount, fault)
            IN  /\ fault \in {NoFault} \cup Faults(FS, backupCount)
                /\ SetFS(s.fs)
                /\ last' = IF s.ok THEN Saved(op, args, result, fault)
                           ELSE SaveFailed(op, args, fault)
       ELSE /\ fault = NoFault
            /\ UNCHANGED fs
            /\ last' = Returned(op, args, result)

\* NetworkXAdapter(config) on the same configuration: a new handle (a new
\* session or process) over the files the earlier one left
FreshHandle ==
    /\ connected' = FALSE
    /\ graph' = EmptyGraph
    /\ nodesByLabel' = EmptyMap
    /\ relCounter' = 0
    /\ created' = EmptyMap
    /\ last' = Returned("new", EmptyMap, None)
    /\ UNCHANGED <<fs, uuidNext>>

Connect ==
    LET r == LoadGraph(dataFile, graph, nodesByLabel, relCounter)
    IN  /\ graph' = r.graph
        /\ nodesByLabel' = r.idx
        /\ relCounter' = r.ctr
        /\ connected' = IF r.raised THEN connected ELSE TRUE
        /\ last' = IF r.raised
                   THEN Raised("connect", EmptyMap, "DatabaseConnectionError")
                   ELSE Returned("connect", EmptyMap, None)
        /\ created' = IF r.graph = graph THEN created ELSE EmptyMap
        /\ UNCHANGED <<fs, uuidNext>>

\* a direct call of _save_graph (it does not look at _connected)
SaveCall(fault) ==
    LET s == SaveGraph(FS, Encode(graph, nodesByLabel, relCounter), backupCount, fault)
    IN  /\ fault \in {NoFault} \cup Faults(FS, backupCount)
        /\ SetFS(s.fs)
        /\ last' = IF s.ok THEN Saved("save", EmptyMap, None, fault)
                   ELSE SaveFailed("save", EmptyMap, fault)
        /\ UNCHANGED <<mem, uuidNext, created>>

Disconnect(fault) ==
    IF ~connected
    THEN fault = NoFault /\ Answered("disconnect", EmptyMap, None)
    ELSE LET s == SaveGraph(FS, Encode(graph, nodesByLabel, relCounter), backupCount, fault)
         IN  /\ fault \in {NoFault} \cup Faults(FS, backupCount)
             /\ SetFS(s.fs)
             /\ connected' = ~s.ok
             /\ last' = IF s.ok THEN Saved("disconnect", EmptyMap, None, fault)
                        ELSE SaveFailed("disconnect", EmptyMap, fault)
             /\ UNCHANGED <<graph, nodesByLabel, relCounter, uuidNext, created>>

\* CreateNodeError without the "already exists" check
CreateNodeErrorNoDuplicateCheck(conn, g, props, nid) ==
    IF ~conn THEN "DatabaseConnectionError"
    ELSE IF IsReserved(props) THEN "ValidationError"
    ELSE "none"

\* what create_node raises before it touches the graph: "none" when the
\* call goes through
CreateNodeError(conn, g, props, nid) ==
    IF ~conn THEN "DatabaseConnectionError"
    ELSE IF IsReserved(props) THEN "ValidationError"
    ELSE IF nid # NoId /\ HasNode(g, nid) THEN "ValidationError"
    ELSE "none"

CreateNode(label, props, nid, fault) ==
    LET args == [label |-> label, properties |-> props, node_id |-> nid]
        err == CreateNodeError(connected, graph, props, nid)
    IN  IF err # "none"
        THEN fault = NoFault /\ Rejected("create_node", args, err)
        ELSE \E id \in (IF nid = NoId THEN NodeIds \ DOMAIN graph.attrs ELSE {nid}) :
             /\ Commit("create_node", args, id,
                    AddNode(graph, id, Merge([node_id |-> id, label |-> label], props)),
                    Merge(nodesByLabel,
                          (label :> (Get(nodesByLabel, label, {}) \cup {id}))),
                    relCounter, fault)
             /\ created' = Merge(created, (id :> label))
             /\ UNCHANGED uuidNext

GetNodeCall(nid) ==
    LET args == [node_id |-> nid]
    IN  IF ~connected THEN NotConnected("get_node", args)
        ELSE Answered("get_node", args, GetNode(graph, nid))

UpdateNode(nid, props, fault) ==
    LET args == [node_id |-> nid, properties |-> props]
    IN  IF ~connected THEN fault = NoFault /\ NotConnected("update_node", args)
        ELSE IF ~HasNode(graph, nid)
        THEN fault = NoFault /\ Answered("update_node", args, FALSE)
        ELSE IF IsReserved(props)
        THEN fault = NoFault /\ Rejected("update_node", args, "ValidationError")
        ELSE /\ Commit("update_node", args, TRUE,
                    [graph EXCEPT !.attrs[nid] = Merge(@, props)],
                    nodesByLabel, relCounter, fault)
             /\ UNCHANGED <<uuidNext, created>>

\* the label cleanup of delete_node, by the node's "label" attribute
DiscardFromIndex(idx, label, nid) ==
    IF label # None /\ label # "" /\ label \in DOMAIN idx
    THEN IF idx[label] \ {nid} = {}
         THEN Without(idx, {label})
         ELSE [idx EXCEPT ![label] = @ \ {nid}]
    ELSE idx

DeleteNode(nid, fault) ==
    LET args == [node_id |-> nid]
    IN  IF ~connected THEN fault = NoFault /\ NotConnected("delete_node", args)
        ELSE IF ~HasNode(graph, nid)
        THEN fault = NoFault /\ Answered("delete_node", args, FALSE)
        ELSE /\ Commit("delete_node", args, TRUE,
                    RemoveNode(graph, nid),
                    DiscardFromIndex(nodesByLabel,
                                     Get(graph.attrs[nid], "label", None), nid),
                    relCounter, fault)
             /\ created' = Without(created, {nid})
             /\ UNCHANGED uuidNext

GetNodesByLabelCall(label, filters, limit) ==
    LET args == [label |-> label, filters |-> filters, limit |-> limit]
    IN  IF ~connected THEN NotConnected("get_nodes_by_label", args)
        ELSE Answered("get_nodes_by_label", args,
                      GetNodesByLabel(graph, label, filters, limit))

CreateRelationship(start, end, type, props, fault) ==
    LET args == [start_node_id |-> start, end_node_id |-> end,
                 relationship_type |-> type, properties |-> props]
        rel == Uuid(uuidNext + 1)
    IN  IF ~connected
        THEN fault = NoFault /\ NotConnected("create_relationship", args)
        ELSE IF ~HasNode(graph, start) \/ ~HasNode(graph, end)
        THEN fault = NoFault /\ Rejected("create_relationship", args, "NodeNotFoundError")
        ELSE IF IsBlank(type)
        THEN fault = NoFault /\ Rejected("create_relationship", args, "ValidationError")
        ELSE /\ uuidNext < MaxUuid
             /\ uuidNext' = uuidNext + 1
             /\ Commit("create_relationship", args, rel,
                    AddEdge(graph, start, end,
                            Merge([rel_id |-> rel, type |-> type,
                                   start_node_id |-> start, end_node_id |-> end],
                                  props)),
                    nodesByLabel, relCounter + 1, fault)
             /\ UNCHANGED created

GetRelationshipsCall(nid, type, direction) ==
    LET args == [node_id |-> nid, relationship_type |-> type, direction |-> direction]
        r == GetRelationships(graph, nid, type, direction)
    IN  IF ~connected THEN NotConnected("get_relationships", args)
        ELSE IF r.raised # "none" THEN Rejected("get_relationships", args, r.raised)
        ELSE Answered("get_relationships", args, r.result)

\* the loop of delete_relationship removes the first edge, in G.edges order,
\* whose "rel_id" attribute equals the argument; the order among several
\* such edges is left open
DeleteRelationship(rel, fault) ==
    LET args == [relationship_id |-> rel]
        hits == {e \in DOMAIN graph.edges : Get(graph.edges[e], "rel_id", None) = rel}
    IN  IF ~connected
        THEN fault = NoFault /\ NotConnected("delete_relationship", args)
        ELSE IF hits = {}
        THEN fault = NoFault /\ Answered("delete_relationship", args, FALSE)
        ELSE \E e \in hits :
             /\ Commit("delete_relationship", args, TRUE,
                    RemoveEdge(graph, e), nodesByLabel, relCounter, fault)
             /\ UNCHANGED <<uuidNext, created>>

QueriesIn == {"count nodes", "count edges", "list nodes", "list edges", "match (n)"}
ExecuteQuery(q) ==
    LET args == [query |-> q]
    IN  IF ~connected THEN NotConnected("execute_query", args)
        ELSE IF q = "count nodes"
        THEN Answered("execute_query", args, [count |-> NumberOfNodes(graph)])
        ELSE IF q = "count edges"
        THEN Answered("execute_query", args, [count |-> NumberOfEdges(graph)])
        ELSE IF q = "list nodes"
        THEN Answered("execute_query", args, [nodes |-> graph.order])
        ELSE IF q = "list edges"
        THEN Answered("execute_query", args,
                 [edges |-> {<<EdgeSource(graph, e), EdgeTarget(graph, e)>> :
                                e \in DOMAIN graph.edges}])
        ELSE Rejected("execute_query", args, "ValidationError")

ClearAllData(fault) ==
    IF ~connected THEN fault = NoFault /\ NotConnected("clear_all_data", EmptyMap)
    ELSE /\ Commit("clear_all_data", EmptyMap, None,
                EmptyGraph, EmptyMap, 0, fault)
         /\ created' = EmptyMap
         /\ UNCHANGED uuidNext

\* no second handle has been constructed
NoPeer == [path |-> None]
\* no operation has been handed to the event loop
NoTasks == [running |-> 0, pc |-> <<>>, op |-> <<>>, res |-> <<>>, base |-> EmptyMap]

---------------------------------------------------------------------------
(* Specification Spec: one configuration, handles that follow one another  *)
(* on its data file, every operation of the store contract, no file-system *)
(* fault.                                                                  *)

InitHandle ==
    /\ connected = FALSE
    /\ graph = EmptyGraph
    /\ nodesByLabel = EmptyMap
    /\ relCounter = 0
    /\ uuidNext = 0
    /\ ops = 0
    /\ created = EmptyMap
    /\ last = Returned("new", EmptyMap, None)
    /\ tmpFile = Absent
    /\ backups = [i \in 1..BakSlots |-> Absent]
    /\ peer = NoPeer
    /\ tasks = NoTasks

Init ==
    /\ InitHandle
    /\ autoSave \in BOOLEAN
    /\ backupCount \in {0, 1}
    /\ dataFile = Absent

Tick ==
    /\ ops < MaxOps
    /\ ops' = ops + 1
    /\ UNCHANGED <<cfg, peer, tasks>>

Next ==
    \/ Tick /\ FreshHandle
    \/ Tick /\ Connect
    \/ Tick /\ Disconnect(NoFault)
    \/ Tick /\ SaveCall(NoFault)
    \/ \E l \in Labels, p \in NodePropsIn, i \in NodeIds \cup {NoId} :
          Tick /\ CreateNode(l, p, i, NoFault)
    \/ \E i \in NodeIds, p \in NodePropsIn : Tick /\ UpdateNode(i, p, NoFault)
    \/ \E i \in NodeIds : Tick /\ DeleteNode(i, NoFault)
    \/ \E s \in NodeIds, e \in NodeIds, t \in RelTypesIn, p \in EdgePropsIn :
          Tick /\ CreateRelationship(s, e, t, p, NoFault)
    \/ \E r \in RelIdsIn : Tick /\ DeleteRelationship(r, NoFault)
    \/ Tick /\ ClearAllData(NoFault)

Spec == Init /\ [][Next]_vars

---------------------------------------------------------------------------
(* Specification SpecFS: the persistence side.  One node, a fault in any   *)
(* file operation of a save, and a process that stops in the middle of a   *)
(* save.                                                                   *)

\* The process stops after the k-th file operation of a _save_graph of the
\* current memory; the next handle finds the files as they were left.
Crash(k) ==
    LET steps == SaveSteps(FS, Encode(graph, nodesByLabel, relCounter), backupCount)
    IN  /\ k \in 1..(Len(steps) - 1)
        /\ SetFS(steps[k])
        /\ connected' = FALSE
        /\ graph' = EmptyGraph
        /\ nodesByLabel' = EmptyMap
        /\ relCounter' = 0
        /\ created' = EmptyMap
        /\ last' = Returned("crash", [step |-> k], None)
        /\ UNCHANGED uuidNext

InitFS ==
    /\ InitHandle
    /\ autoSave \in BOOLEAN
    /\ backupCount \in 0..MaxBackup
    /\ dataFile \in {Absent, Empty}

MaxRotSteps == 2 * BakSlots
FaultsIn ==
    {NoFault} \cup WriteFaults \cup {[at |-> "rot", k |-> j] : j \in 1..MaxRotSteps}
NodePropsFS == { EmptyMap, [name |-> "x"] }

TickFS ==
    /\ ops < MaxOpsFS
    /\ ops' = ops + 1
    /\ UNCHANGED <<cfg, peer, tasks>>

NextFS ==
    \/ TickFS /\ FreshHandle
    \/ TickFS /\ Connect
    \/ \E f \in FaultsIn : TickFS /\ Disconnect(f)
    \/ \E f \in FaultsIn : TickFS /\ SaveCall(f)
    \/ \E p \in NodePropsFS, f \in FaultsIn : TickFS /\ CreateNode("Rule", p, "a", f)
    \/ \E f \in FaultsIn : TickFS /\ DeleteNode("a", f)
    \/ \E k \in 1..(MaxRotSteps + 3) : TickFS /\ Crash(k)

SpecFS == InitFS /\ [][NextFS]_vars

---------------------------------------------------------------------------
(* Specification SpecLoad: connect() over every kind of data file.         *)

\* {"graph": {"nodes": [{"id": "a", "node_id": "a", "label": "Rule"}],
\*            "links": []}}  with "metadata" missing or null
MetadataAbsentDoc ==
    [kind |-> "doc",
     nodes |-> << [id |-> "a", node_id |-> "a", label |-> "Rule"] >>,
     links |-> {}]
\* the same graph with "metadata": {"nodes_by_label": {"Rule": ["b"]},
\* "relationship_counter": 0}: an index that names another node
StaleIndexDoc ==
    [kind |-> "doc",
     nodes |-> << [id |-> "a", node_id |-> "a", label |-> "Rule"] >>,
     links |-> {},
     nodes_by_label |-> ("Rule" :> {"b"}),
     relationship_counter |-> 0]

InitialFiles ==
    {Absent, Empty} \cup {File(k) : k \in FallbackKinds \cup RaisingKinds}
      \cup {MetadataAbsentDoc, StaleIndexDoc}

InitLoad ==
    /\ InitHandle
    /\ autoSave \in BOOLEAN
    /\ backupCount \in 0..MaxBackup
    /\ dataFile \in InitialFiles

NextLoad ==
    \/ Tick /\ FreshHandle
    \/ Tick /\ Connect
    \/ Tick /\ Disconnect(NoFault)
    \/ \E l \in Labels, p \in NodePropsFS, i \in {"a", NoId} :
          Tick /\ CreateNode(l, p, i, NoFault)
    \/ \E i \in NodeIds : Tick /\ GetNodeCall(i)
    \/ \E l \in Labels : Tick /\ GetNodesByLabelCall(l, NoFilters, NoLimit)
    \/ \E i \in NodeIds, d \in DirectionsIn : Tick /\ GetRelationshipsCall(i, NoType, d)
    \/ \E q \in QueriesIn : Tick /\ ExecuteQuery(q)

SpecLoad == InitLoad /\ [][NextLoad]_vars

---------------------------------------------------------------------------
(* Claims about the persistence side, checked under SpecFS                 *)

WriteFaultKinds == {"open", "dump", "replace"}

\* C1: a save that fails, for any backup count, leaves the data file with
\* exactly the content it had before the save started and leaves no
\* temporary file.
C1_FailedSaveKeepsDataFile ==
    [][ last'.fault \in WriteFaultKinds
          => dataFile' = dataFile /\ tmpFile' = Absent ]_vars

\* C2: at every intermediate step of a save over an existing data file the
\* data file holds the complete pre-save document or the complete new one;
\* it is never absent or partial when the process stops there.
C2_DataFileCompleteAtEveryStep ==
    [][ last'.op = "crash" /\ Exists(dataFile)
          => dataFile' \in {dataFile, Encode(graph, nodesByLabel, relCounter)} ]_vars

BackupFiles == {i \in 1..BakSlots : Exists(backups[i])}

\* C7: the number of backup files never exceeds the configured backup
\* count; with a count of 0 there is never a backup file.
C7_BackupBound ==
    /\ Cardinality(BackupFiles) <= backupCount
    /\ \A i \in BackupFiles : i <= backupCount

\* a full set of backups exists after a save that completed
C7_Witness ==
    /\ last.saved
    /\ backupCount = MaxBackup
    /\ Cardinality(BackupFiles) = backupCount

\* this step is a save that completed, over an existing data file, with
\* backups enabled and no fault in the rotation
CleanSaveStep ==
    /\ last'.saved
    /\ last'.fault = "none"
    /\ Exists(dataFile)
    /\ backupCount >= 1

\* C8: after such a save backup 1 holds the pre-save data file and every
\* backup k+1 (1 <= k < N) holds what backup k held, so that what backup N
\* held is gone.
C8_RotationShiftsEveryBackup ==
    [][ CleanSaveStep
          => /\ backups'[1] = dataFile
             /\ \A k \in 1..(backupCount - 1) : backups'[k + 1] = backups[k] ]_vars

---------------------------------------------------------------------------
(* Claims about loading, checked under SpecLoad                            *)

\* C5: when the data file is invalid JSON, or a JSON object whose graph is
\* missing or not an object, whose graph.nodes is missing or not a list, or
\* whose graph.links is not a list, connect() succeeds, the handle is
\* connected with an empty graph and an empty label index, and create_node
\* goes through for every valid input.
C5_FallbackToEmptyGraph ==
    last.op = "connect" /\ dataFile.kind \in FallbackKinds
      => /\ last.raised = "none"
         /\ connected
         /\ graph = EmptyGraph
         /\ nodesByLabel = EmptyMap
         /\ \A p \in NodePropsFS, i \in NodeIds \cup {NoId} :
               CreateNodeError(connected, graph, p, i) = "none"

\* connect() has returned over a data file whose "links" is not a list
C5_Witness ==
    /\ last.op = "connect"
    /\ dataFile.kind = "linksNotList"
    /\ connected

\* C6: for every content of the data file connect() does not raise; it
\* yields the graph encoded in the file or an empty graph.
C6_ConnectNeverRaises ==
    last.op = "connect"
      => /\ last.raised = "none"
         /\ \/ graph = EmptyGraph
            \/ IsDoc(dataFile) /\ graph = NodeLinkGraph(dataFile)

---------------------------------------------------------------------------
(* Claims about the graph and its file, checked under Spec                 *)

\* what a new handle holds after connect() on file f
Loaded(f) == LoadGraph(f, EmptyGraph, EmptyMap, 0)
Memory == [graph |-> graph, idx |-> nodesByLabel, ctr |-> relCounter, raised |-> FALSE]
Mutators ==
    {"create_node", "update_node", "delete_node", "create_relationship",
     "delete_relationship", "clear_all_data"}

\* C3: after a disconnect that saved, a new handle connecting to the file
\* gets the same nodes, labels, properties, relationships, label index and
\* relationship counter as the handle that saved.
C3_RoundTrip ==
    last.op = "disconnect" /\ last.saved => Loaded(dataFile) = Memory

\* C4: with auto_save on, after every mutating operation that returned, the
\* data file decodes to the in-memory graph and label index, and its
\* node_count / edge_count are the numbers of nodes / links in the file.
C4_AutoSaveDurability ==
    autoSave /\ last.op \in Mutators /\ last.saved
      => /\ IsDoc(dataFile)
         /\ Loaded(dataFile) = Memory
         /\ dataFile.node_count = Len(dataFile.nodes)
         /\ dataFile.edge_count = Cardinality(dataFile.links)

\* C9: every relationship get_relationships reports, for any node and
\* direction, starts and ends at a node that exists; after delete_node(n)
\* none of them names n as its start or end.
C9_NoDanglingRelationships ==
    /\ \A n \in DOMAIN graph.attrs, d \in Directions :
         \A r \in RelationshipsOf(graph, n, NoType, d) :
            HasNode(graph, r.start_node_id) /\ HasNode(graph, r.end_node_id)
    /\ last.op = "delete_node" /\ last.raised = "none"
         => \A n \in DOMAIN graph.attrs, d \in Directions :
              \A r \in RelationshipsOf(graph, n, NoType, d) :
                 last.args.node_id \notin {r.start_node_id, r.end_node_id}

\* C10: for every label L, get_nodes_by_label(L) without filters or limit
\* returns exactly the present nodes that create_node was given the label L
\* for, in ascending order of node id.
C10_LabelQueryExact ==
    connected /\ DOMAIN created = DOMAIN graph.attrs
      => \A l \in Labels :
            GetNodesByLabelIds(graph, l, NoFilters, NoLimit)
              = SortById({n \in DOMAIN graph.attrs : created[n] = l})

---------------------------------------------------------------------------
(* Claims about labels and the label index, checked under Spec             *)

StoredLabel(g, n) == Get(g.attrs[n], "label", None)

\* C11: on a connected handle the label index maps every label to exactly
\* the ids of the present nodes whose stored label it is: no absent node,
\* no present node missing, no node under another label.
C11_LabelIndexInvariant ==
    connected
      => \A l \in Labels \cup DOMAIN nodesByLabel :
            Get(nodesByLabel, l, {})
              = {n \in DOMAIN graph.attrs : StoredLabel(graph, n) = l}

\* C12: from its creation to its deletion, the label get_node reports for a
\* node is the label argument of the create_node call that created it,
\* whatever properties create_node and update_node were given.
C12_LabelImmutable ==
    connected
      => \A n \in DOMAIN graph.attrs \cap DOMAIN created :
            GetNode(graph, n).label = created[n]

---------------------------------------------------------------------------
(* Specification SpecApi: every operation of the store contract on handles *)
(* that follow one another on one data file, queries included, no         *)
(* file-system fault.                                                      *)

MaxOpsApi == 4                     \* calls per behaviour under SpecApi

FiltersIn == { NoFilters, [name |-> "x"] }
LimitsIn == { NoLimit, 0, 1, 2 }

InitApi ==
    /\ InitHandle
    /\ autoSave \in BOOLEAN
    /\ backupCount \in {0, 1}
    /\ dataFile = Absent

TickApi ==
    /\ ops < MaxOpsApi
    /\ ops' = ops + 1
    /\ UNCHANGED <<cfg, peer, tasks>>

NextApi ==
    \/ TickApi /\ FreshHandle
    \/ TickApi /\ Connect
    \/ TickApi /\ Disconnect(NoFault)
    \/ \E l \in Labels, p \in NodePropsFS, i \in NodeIds :
          TickApi /\ CreateNode(l, p, i, NoFault)
    \/ \E i \in NodeIds : TickApi /\ GetNodeCall(i)
    \/ \E i \in NodeIds, p \in NodePropsFS : TickApi /\ UpdateNode(i, p, NoFault)
    \/ \E i \in NodeIds : TickApi /\ DeleteNode(i, NoFault)
    \/ \E l \in Labels, f \in FiltersIn, k \in LimitsIn :
          TickApi /\ GetNodesByLabelCall(l, f, k)
    \/ \E s \in NodeIds, e \in NodeIds, t \in RelTypesIn :
          TickApi /\ CreateRelationship(s, e, t, EmptyMap, NoFault)
    \/ \E i \in NodeIds, d \in DirectionsIn :
          TickApi /\ GetRelationshipsCall(i, NoType, d)
    \/ \E r \in RelIdsIn : TickApi /\ DeleteRelationship(r, NoFault)
    \/ \E q \in QueriesIn : TickApi /\ ExecuteQuery(q)
    \/ TickApi /\ ClearAllData(NoFault)

SpecApi == InitApi /\ [][NextApi]_vars

---------------------------------------------------------------------------
(* Claims about the handle's connection state and argument checks          *)

DataOps ==
    {"create_node", "get_node", "update_node", "delete_node",
     "get_nodes_by_label", "create_relationship", "get_relationships",
     "delete_relationship", "execute_query", "clear_all_data"}

\* C13: on a Disconnected handle every data operation, for every argument,
\* raises the connection error and leaves the in-memory graph, the label
\* index, the data file and the backups as they were.
C13_ConnectionGating ==
    [][ ~connected /\ last'.op \in DataOps
          => /\ last'.raised = "DatabaseConnectionError"
             /\ UNCHANGED <<mem, fs>> ]_vars

\* a disconnected handle that still holds nodes refuses clear_all_data
C13_Witness ==
    /\ ~connected
    /\ last.op = "clear_all_data"
    /\ last.raised = "DatabaseConnectionError"
    /\ NumberOfNodes(graph) > 0
    /\ IsDoc(dataFile)

\* C14: the handle becomes Connected only by a connect that succeeds, and a
\* disconnect called on a Connected handle leaves it Disconnected, also
\* when the flush of that disconnect fails.
C14_HandleStateMachine ==
    [][ /\ ~connected /\ connected'
          => last'.op = "connect" /\ last'.raised = "none"
        /\ connected /\ last'.op = "disconnect"
          => ~connected' ]_vars

\* C15: create_node on a connected handle with a reserved property key or
\* with an explicit id that already exists raises ValidationError and
\* changes neither the graph, the label index nor any file.
C15_CreateNodeRejected ==
    [][ ( /\ connected
          /\ last'.op = "create_node"
          /\ \/ DOMAIN last'.args.properties \cap {"id", "_id", "node_id"} # {}
             \/ last'.args.node_id \in DOMAIN graph.attrs )
          => /\ last'.raised = "ValidationError"
             /\ UNCHANGED <<mem, fs>> ]_vars

\* an auto-saving handle refused to create, under another label, a node
\* whose id is taken
C15_Witness ==
    /\ connected
    /\ autoSave
    /\ last.op = "create_node"
    /\ last.raised = "ValidationError"
    /\ last.args.properties = EmptyMap
    /\ last.args.node_id \in DOMAIN graph.attrs
    /\ last.args.label # StoredLabel(graph, last.args.node_id)
    /\ IsDoc(dataFile)

EndpointMissing(g, args) ==
    ~HasNode(g, args.start_node_id) \/ ~HasNode(g, args.end_node_id)

\* C16 (as stated): create_relationship on a connected handle raises
\* NodeNotFoundError when an endpoint is absent and ValidationError when the
\* type is empty or whitespace-only, and in both cases changes neither the
\* graph, the relationship counter nor any file.
C16_RelationshipRejected ==
    [][ (connected /\ last'.op = "create_relationship")
          => /\ EndpointMissing(graph, last'.args)
                  => /\ last'.raised = "NodeNotFoundError"
                     /\ UNCHANGED <<mem, fs>>
             /\ last'.args.relationship_type \in {"", " "}
                  => /\ last'.raised = "ValidationError"
                     /\ UNCHANGED <<mem, fs>> ]_vars

\* C16 (amended): NodeNotFoundError when an endpoint is absent, whatever the
\* type; ValidationError when both endpoints exist and the type is empty or
\* whitespace-only; in both cases nothing changes.
C16_RelationshipRejectedEndpointsFirst ==
    [][ (connected /\ last'.op = "create_relationship")
          => /\ EndpointMissing(graph, last'.args)
                  => /\ last'.raised = "NodeNotFoundError"
                     /\ UNCHANGED <<mem, fs>>
             /\ ( /\ ~EndpointMissing(graph, last'.args)
                  /\ last'.args.relationship_type \in {"", " "} )
                  => /\ last'.raised = "ValidationError"
                     /\ UNCHANGED <<mem, fs>> ]_vars

\* an auto-saving handle that holds a relationship refused a second one
\* with a whitespace type
C16_Witness ==
    /\ connected
    /\ autoSave
    /\ last.op = "create_relationship"
    /\ last.raised = "ValidationError"
    /\ NumberOfEdges(graph) = 1
    /\ relCounter = 1
    /\ IsDoc(dataFile)

---------------------------------------------------------------------------
(* Specification SpecRel: relationships between two nodes on one connected *)
(* handle, created with and without caller properties and deleted again.   *)

MaxOpsRel == 7                     \* calls per behaviour under SpecRel

InitRel ==
    /\ InitHandle
    /\ autoSave \in BOOLEAN
    /\ backupCount \in {0, 1}
    /\ dataFile = Absent

TickRel ==
    /\ ops < MaxOpsRel
    /\ ops' = ops + 1
    /\ UNCHANGED <<cfg, peer, tasks>>

NextRel ==
    \/ TickRel /\ Connect
    \/ \E i \in NodeIds : TickRel /\ CreateNode("Rule", EmptyMap, i, NoFault)
    \/ \E i \in NodeIds : TickRel /\ DeleteNode(i, NoFault)
    \/ \E s \in NodeIds, e \in NodeIds, p \in EdgePropsIn :
          TickRel /\ CreateRelationship(s, e, "LINK", p, NoFault)
    \/ \E r \in RelIdsIn : TickRel /\ DeleteRelationship(r, NoFault)

SpecRel == InitRel /\ [][NextRel]_vars

---------------------------------------------------------------------------
(* Claims about relationships, checked under SpecRel                       *)

\* the graph a fresh handle holds after connecting to the file a save of
\* (g, idx, ctr) writes
Reloaded(g, idx, ctr) == LoadGraph(Encode(g, idx, ctr), EmptyGraph, EmptyMap, 0).graph

\* get_relationships(n, direction=d) lists a relationship whose id is rel
Reports(g, n, d, rel) ==
    /\ HasNode(g, n)
    /\ \E r \in RelationshipsOf(g, n, NoType, d) : Get(r, "rel_id", None) = rel

DirectionOk(g, s, e, rel) ==
    /\ Reports(g, s, "outgoing", rel)
    /\ Reports(g, e, "incoming", rel)
    /\ ~Reports(g, s, "incoming", rel)
    /\ ~Reports(g, e, "outgoing", rel)
    /\ Reports(g, s, "both", rel)
    /\ Reports(g, e, "both", rel)

\* the call l created a relationship between two different nodes
MadeRelationship(l) ==
    /\ l.op = "create_relationship"
    /\ l.raised = "none"
    /\ l.args.start_node_id # l.args.end_node_id

\* C17: a relationship created by create_relationship(s, e, t), s # e, is
\* listed as outgoing for s and incoming for e, not as incoming for s or
\* outgoing for e, and under 'both' for s and e: right after its creation,
\* after a save and a load into a fresh handle, and still after a further
\* create_relationship call.
C17_DirectionFilter ==
    [][ /\ MadeRelationship(last')
          => /\ DirectionOk(graph', last'.args.start_node_id,
                            last'.args.end_node_id, last'.result)
             /\ DirectionOk(Reloaded(graph', nodesByLabel', relCounter'),
                            last'.args.start_node_id,
                            last'.args.end_node_id, last'.result)
        /\ (MadeRelationship(last) /\ last'.op = "create_relationship")
          => DirectionOk(graph', last.args.start_node_id,
                         last.args.end_node_id, last.result) ]_vars

---------------------------------------------------------------------------
(* Claims about the read operations                                        *)

\* C18: on a connected handle get_relationships with a direction other
\* than 'incoming', 'outgoing' or 'both' raises ValidationError for every
\* node id, present or not.
C18_InvalidDirection ==
    ( /\ connected
      /\ last.op = "get_relationships"
      /\ last.args.direction \notin {"incoming", "outgoing", "both"} )
      => last.raised = "ValidationError"

ResultIds(result) == [i \in DOMAIN result |-> result[i].node_id]
FirstK(s, k) == SubSeq(s, 1, IF k < Len(s) THEN k ELSE Len(s))

\* C19: get_nodes_by_label(L, F, limit=k), k >= 0, returns the first k
\* nodes of the id-sorted result of get_nodes_by_label(L, F) without limit
\* (all of them when there are fewer), each matching L and every key of F.
C19_LimitSemantics ==
    ( /\ last.op = "get_nodes_by_label"
      /\ last.raised = "none"
      /\ last.args.limit # NoLimit )
      => /\ ResultIds(last.result)
              = FirstK(GetNodesByLabelIds(graph, last.args.label,
                                          last.args.filters, NoLimit),
                       last.args.limit)
         /\ \A i \in DOMAIN last.result :
               /\ last.result[i].label = last.args.label
               /\ \A k \in DOMAIN last.args.filters :
                     /\ k \in DOMAIN last.result[i]
                     /\ last.result[i][k] = last.args.filters[k]

---------------------------------------------------------------------------
(* Claims about deletion, checked under SpecRel                            *)

HasRelationship(g, rel) ==
    \E e \in DOMAIN g.edges : Get(g.edges[e], "rel_id", None) = rel

DeleteCalls == {"delete_node", "delete_relationship"}

\* C20: on a connected handle delete_node of an absent id and
\* delete_relationship of an absent relationship id return false without
\* raising and change neither the graph, the label index nor any file; a
\* delete that returned true returns false when it is repeated.
C20_IdempotentDelete ==
    [][ /\ ( /\ connected
             /\ last'.op = "delete_node"
             /\ ~HasNode(graph, last'.args.node_id) )
          => /\ last'.raised = "none"
             /\ last'.result = FALSE
             /\ UNCHANGED <<mem, fs>>
        /\ ( /\ connected
             /\ last'.op = "delete_relationship"
             /\ ~HasRelationship(graph, last'.args.relationship_id) )
          => /\ last'.raised = "none"
             /\ last'.result = FALSE
             /\ UNCHANGED <<mem, fs>>
        /\ ( /\ last.op \in DeleteCalls
             /\ last.raised = "none"
             /\ last.result = TRUE
             /\ last'.op = last.op
             /\ last'.args = last.args )
          => /\ last'.raised = "none"
             /\ last'.result = FALSE ]_vars

---------------------------------------------------------------------------
(* Claims about when memory reaches the file and what connect loads        *)

\* C21: with auto_save disabled no mutating operation changes the data
\* file, the temporary file or a backup, and a successful disconnect of a
\* connected handle writes the whole in-memory graph: a fresh handle that
\* connects to the file holds the graph, label index and counter the
\* disconnecting handle held.
C21_FlushOnDisconnect ==
    [][ /\ (~autoSave /\ last'.op \in Mutators) => UNCHANGED fs
        /\ ( /\ ~autoSave
             /\ connected
             /\ last'.op = "disconnect"
             /\ last'.raised = "none" )
          => /\ dataFile' = Encode(graph, nodesByLabel, relCounter)
             /\ Loaded(dataFile') = Memory ]_vars

\* C22: a save that fails while opening, writing or renaming the temporary
\* file reaches the caller as a PersistenceError, not as the connection
\* error.
C22_SaveFailureIsPersistenceError ==
    last.fault \in WriteFaultKinds => last.raised = "PersistenceError"

\* C23: after a successful connect, on a fresh handle or on one that holds
\* data, the in-memory graph and label index are those of the data file,
\* and are empty when the file is absent or zero-length.
C23_ConnectReflectsFile ==
    (last.op = "connect" /\ last.raised = "none")
      => /\ dataFile \in {Absent, Empty}
              => graph = EmptyGraph /\ nodesByLabel = EmptyMap
         /\ IsDoc(dataFile)
              => /\ graph = NodeLinkGraph(dataFile)
                 /\ nodesByLabel = dataFile.nodes_by_label


\* the index the nodes of a graph give: each label to the ids bearing it
IndexHolds(g, idx) ==
    \A l \in Labels \cup DOMAIN idx :
        Get(idx, l, {}) = {n \in DOMAIN g.attrs : StoredLabel(g, n) = l}

\* C24: right after connect() has loaded a structurally valid file, the
\* label index maps each label to exactly the ids of the loaded nodes that
\* bear it, also when the file's metadata is missing or null or its
\* nodes_by_label disagrees with the node list.
C24_IndexValidatedOnLoad ==
    (last.op = "connect" /\ last.raised = "none" /\ IsDoc(dataFile))
      => IndexHolds(graph, nodesByLabel)


---------------------------------------------------------------------------
(* Claims about relationships as a collection, checked under SpecRel       *)

\* C25: every successful create_relationship adds exactly one relationship
\* and leaves every existing relationship as it was, also when one already
\* joins the same pair of nodes in either direction.
C25_RelationshipsAccumulate ==
    [][ (last'.op = "create_relationship" /\ last'.raised = "none")
          => /\ NumberOfEdges(graph') = NumberOfEdges(graph) + 1
             /\ \A e \in DOMAIN graph.edges :
                   /\ e \in DOMAIN graph'.edges
                   /\ graph'.edges[e] = graph.edges[e] ]_vars


\* get_relationships(s) lists the relationship (rel, t, s, e)
Lists(g, s, e, t, rel) ==
    \E r \in RelationshipsOf(g, s, NoType, "both") :
        /\ Get(r, "rel_id", None) = rel
        /\ Get(r, "type", None) = t
        /\ r.start_node_id = s
        /\ r.end_node_id = e

\* C27: after create_relationship(s, e, t, props) has returned an id, for
\* every properties map, get_relationships(s) reports a relationship with
\* that rel_id, type t, start_node_id s and end_node_id e, and
\* delete_relationship of the returned id finds it (returns true).
C27_ReturnedIdAuthoritative ==
    [][ (last'.op = "create_relationship" /\ last'.raised = "none")
          => /\ Lists(graph', last'.args.start_node_id, last'.args.end_node_id,
                      last'.args.relationship_type, last'.result)
             /\ HasRelationship(graph', last'.result) ]_vars


---------------------------------------------------------------------------
(* Specification SpecMut: every mutating operation on one node and its     *)
(* self-relationship, each with an auto-save flush that may fail to write. *)

MaxOpsMut == 5                     \* calls per behaviour under SpecMut

EdgePropsMut == { EmptyMap, [source |-> "x"] }
WriteFaultsIn == {NoFault} \cup WriteFaults

InitMut ==
    /\ InitHandle
    /\ autoSave \in BOOLEAN
    /\ backupCount \in {0, 1}
    /\ dataFile = Absent

TickMut ==
    /\ ops < MaxOpsMut
    /\ ops' = ops + 1
    /\ UNCHANGED <<cfg, peer, tasks>>

NextMut ==
    \/ TickMut /\ FreshHandle
    \/ TickMut /\ Connect
    \/ \E f \in WriteFaultsIn : TickMut /\ Disconnect(f)
    \/ \E f \in WriteFaultsIn : TickMut /\ SaveCall(f)
    \/ \E p \in NodePropsIn, f \in WriteFaultsIn :
          TickMut /\ CreateNode("Rule", p, "a", f)
    \/ \E p \in NodePropsIn, f \in WriteFaultsIn : TickMut /\ UpdateNode("a", p, f)
    \/ \E f \in WriteFaultsIn : TickMut /\ DeleteNode("a", f)
    \/ \E e \in NodeIds, t \in RelTypesIn, p \in EdgePropsMut, f \in WriteFaultsIn :
          TickMut /\ CreateRelationship("a", e, t, p, f)
    \/ \E r \in RelIdsIn, f \in WriteFaultsIn : TickMut /\ DeleteRelationship(r, f)
    \/ \E f \in WriteFaultsIn : TickMut /\ ClearAllData(f)

SpecMut == InitMut /\ [][NextMut]_vars

---------------------------------------------------------------------------
(* Claims about memory and file after a failure, checked under SpecMut     *)

\* what the mutating call l leaves in memory (g1, idx1) when it goes through
\* on the graph g0
Applied(l, g0, g1, idx1) ==
    IF l.op = "create_node"
    THEN \E n \in DOMAIN g1.attrs \ DOMAIN g0.attrs :
            /\ l.args.node_id \in {NoId, n}
            /\ n \in Get(idx1, l.args.label, {})
    ELSE IF l.op = "update_node"
    THEN \A k \in DOMAIN l.args.properties :
            Get(g1.attrs[l.args.node_id], k, None) = l.args.properties[k]
    ELSE IF l.op = "delete_node"
    THEN HasNode(g0, l.args.node_id) /\ ~HasNode(g1, l.args.node_id)
    ELSE IF l.op = "create_relationship"
    THEN {l.args.start_node_id, l.args.end_node_id} \in DOMAIN g1.edges
    ELSE IF l.op = "delete_relationship"
    THEN NumberOfEdges(g1) = NumberOfEdges(g0) - 1
    ELSE g1 = EmptyGraph /\ idx1 = EmptyMap

\* C26 (as stated): a mutating operation that raises any error, a failure
\* of its auto-save flush included, leaves the in-memory graph and the label
\* index exactly as they were before the call.
C26_FailedMutationUnchanged ==
    [][ (last'.op \in Mutators /\ last'.raised # "none")
          => UNCHANGED <<graph, nodesByLabel>> ]_vars

\* C26 (amended): a mutating operation that raises before it mutates (not
\* connected, endpoint absent, validation) leaves the in-memory graph and
\* the label index exactly as they were; one that raises because its
\* auto-save flush failed has applied its mutation to memory, and memory
\* keeps it.
C26_FailedFlushKeepsMutation ==
    [][ (last'.op \in Mutators /\ last'.raised # "none")
          => /\ last'.fault = "none" => UNCHANGED <<graph, nodesByLabel>>
             /\ last'.fault # "none" => Applied(last', graph, graph', nodesByLabel') ]_vars

\* create_node('Rule', ..., node_id='a') raised out of its flush and the
\* node is in memory
C26_Witness ==
    /\ last.op = "create_node"
    /\ last.raised # "none"
    /\ last.fault \in WriteFaultKinds
    /\ HasNode(graph, "a")


\* C29: when a save on a connected handle has failed and the next call's
\* save succeeds (an auto-saving mutation, an explicit save or disconnect),
\* the data file then decodes to the complete current memory, the mutation
\* whose own flush failed included; and a failed save leaves the handle
\* connected.
C29_RecoveryAfterFailedSave ==
    [][ /\ (connected /\ last'.fault \in WriteFaultKinds) => connected'
        /\ (connected /\ last.fault \in WriteFaultKinds /\ last'.saved)
             => Loaded(dataFile') = Memory' ]_vars


---------------------------------------------------------------------------
(* Specification SpecPeers: a second handle of the same process on another *)
(* data file.  A path is [dir, stem, suffix]; the files both handles reach *)
(* under one path are one file, held in tmpFile and backups.               *)

MaxOpsPeers == 6                   \* calls per behaviour under SpecPeers

\* Path.with_suffix(s): the suffix of the file name is replaced
WithSuffix(p, s) == [p EXCEPT !.suffix = s]
TempPath(p) == WithSuffix(p, "tmp")
BackupPath(p, i) == WithSuffix(p, <<"bak", i>>)

\* config.get("data_file", "data/graph_data.json")
DataPath == [dir |-> "data", stem |-> "graph_data", suffix |-> "json"]
PeerPaths ==
    { [dir |-> "data", stem |-> "graph_data", suffix |-> "db"],
      [dir |-> "data", stem |-> "rules", suffix |-> "json"],
      [dir |-> "backup", stem |-> "graph_data", suffix |-> "json"] }

\* the peer's temporary file and backups are the files of this handle
SharesFiles(p) ==
    /\ TempPath(p) = TempPath(DataPath)
    /\ \A i \in 1..BakSlots : BackupPath(p, i) = BackupPath(DataPath, i)

\* the documents the peer saves: its graph holds node "b", then "b" and "c"
PeerDocs ==
    { Encode(AddNode(EmptyGraph, "b", [node_id |-> "b", label |-> "Rule"]),
             ("Rule" :> {"b"}), 0),
      Encode(AddNode(AddNode(EmptyGraph, "b", [node_id |-> "b", label |-> "Rule"]),
                     "c", [node_id |-> "c", label |-> "Rule"]),
             ("Rule" :> {"b", "c"}), 0) }

\* the files the peer's _save_graph works on
PeerFS ==
    [data |-> peer.data,
     tmp  |-> IF SharesFiles(peer.path) THEN tmpFile ELSE peer.tmp,
     bak  |-> IF SharesFiles(peer.path) THEN backups ELSE peer.bak]

\* NetworkXAdapter({"data_file": p, ...}): the second handle
PeerNew(p) ==
    /\ peer = NoPeer
    /\ p # DataPath
    /\ peer' = [path |-> p, data |-> Absent, tmp |-> Absent,
                bak |-> [i \in 1..BakSlots |-> Absent]]
    /\ last' = Returned("peer_new", [data_file |-> p], None)
    /\ UNCHANGED <<mem, fs, uuidNext, created>>

\* _save_graph of the second handle, whose graph serializes to doc
PeerSave(doc) ==
    /\ peer # NoPeer
    /\ LET s == SaveGraph(PeerFS, doc, backupCount, NoFault).fs
           shared == SharesFiles(peer.path)
       IN  /\ peer' = [peer EXCEPT !.data = s.data,
                                   !.tmp = IF shared THEN @ ELSE s.tmp,
                                   !.bak = IF shared THEN @ ELSE s.bak]
           /\ tmpFile' = IF shared THEN s.tmp ELSE tmpFile
           /\ backups' = IF shared THEN s.bak ELSE backups
    /\ last' = Returned("peer_save", EmptyMap, None)
    /\ UNCHANGED <<mem, dataFile, uuidNext, created>>

InitPeers ==
    /\ InitHandle
    /\ autoSave \in BOOLEAN
    /\ backupCount \in {0, 1}
    /\ dataFile = Absent

TickOwn ==
    /\ ops < MaxOpsPeers
    /\ ops' = ops + 1
    /\ UNCHANGED <<cfg, peer, tasks>>

TickPeer ==
    /\ ops < MaxOpsPeers
    /\ ops' = ops + 1
    /\ UNCHANGED <<cfg, tasks>>

NextPeers ==
    \/ TickOwn /\ Connect
    \/ TickOwn /\ SaveCall(NoFault)
    \/ \E p \in NodePropsFS : TickOwn /\ CreateNode("Rule", p, "a", NoFault)
    \/ TickOwn /\ DeleteNode("a", NoFault)
    \/ \E p \in PeerPaths : TickPeer /\ PeerNew(p)
    \/ \E d \in PeerDocs : TickPeer /\ PeerSave(d)

SpecPeers == InitPeers /\ [][NextPeers]_vars

PeerCalls == {"peer_new", "peer_save"}

\* C28: of two handles on different data file paths, a save of the one
\* changes no file of the other: the second handle's save leaves this
\* handle's data file, temporary file and backups as they were, and this
\* handle's operations leave the files the second handle saves to as they
\* were, also when the two paths differ only in their suffix.
C28_FileIsolation ==
    [][ /\ last'.op = "peer_save" => UNCHANGED fs
        /\ (peer # NoPeer /\ last'.op \notin PeerCalls) => PeerFS' = PeerFS ]_vars


---------------------------------------------------------------------------
(* Specification SpecTasks: two operations of one handle handed to the     *)
(* event loop together (asyncio.gather), each advancing through its check, *)
(* its in-memory mutation, the backup rotation and the file write.  The    *)
(* loop can run another task only where the running one suspends.          *)

MaxOpsTasks == 3                   \* connect and gather calls per behaviour

TaskIds == {1, 2}
\* the calls handed to the loop: every mutating operation, on node a (and b
\* for create_node / delete_node) and on the self-relationship of a
TaskOps ==
    {[op |-> o, node_id |-> i] : o \in {"create_node", "delete_node"}, i \in NodeIds}
      \cup {[op |-> "update_node", node_id |-> "a", properties |-> [name |-> "x"]]}
      \cup {[op |-> "create_relationship", start_node_id |-> "a", end_node_id |-> "a",
              relationship_type |-> "LINK", properties |-> p] : p \in EdgePropsMut}
      \cup {[op |-> "delete_relationship", relationship_id |-> Uuid(1)]}
      \cup {[op |-> "clear_all_data"]}

\* the coroutines each coroutine of the adapter awaits
Awaits ==
    [create_node         |-> {"_save_graph"},
     update_node         |-> {"_save_graph"},
     delete_node         |-> {"_save_graph"},
     create_relationship |-> {"_save_graph"},
     delete_relationship |-> {"_save_graph"},
     clear_all_data      |-> {"_save_graph"},
     _save_graph         |-> {"_create_backup"},
     _create_backup      |-> {}]

RECURSIVE Yields(_)
\* awaiting coroutine c gives control back to the event loop: only when c
\* reaches an await of something that is not itself a plain coroutine (a
\* future, a sleep, a lock); awaiting a coroutine runs it in the same task
Yields(c) ==
    \E a \in Awaits[c] : a \notin DOMAIN Awaits \/ Yields(a)

\* the edges delete_relationship's loop can stop at
RelHits(g, rel) == {e \in DOMAIN g.edges : Get(g.edges[e], "rel_id", None) = rel}

\* the checks of an operation before it mutates: "go", or how the call ends
\* (the exception raised, or the False of update_node, delete_node and
\* delete_relationship)
TaskCheck(o, conn, g) ==
    IF o.op = "create_node"
    THEN LET err == CreateNodeError(conn, g, EmptyMap, o.node_id)
         IN  IF err = "none" THEN "go" ELSE err
    ELSE IF ~conn THEN "DatabaseConnectionError"
    ELSE IF o.op = "update_node"
    THEN IF ~HasNode(g, o.node_id) THEN "False"
         ELSE IF IsReserved(o.properties) THEN "ValidationError"
         ELSE "go"
    ELSE IF o.op = "delete_node"
    THEN IF ~HasNode(g, o.node_id) THEN "False" ELSE "go"
    ELSE IF o.op = "create_relationship"
    THEN IF ~HasNode(g, o.start_node_id) \/ ~HasNode(g, o.end_node_id)
         THEN "NodeNotFoundError"
         ELSE IF IsBlank(o.relationship_type) THEN "ValidationError"
         ELSE "go"
    ELSE IF o.op = "delete_relationship"
    THEN IF RelHits(g, o.relationship_id) = {} THEN "False" ELSE "go"
    ELSE "go"

\* the in-memory mutation of the operation on (g, idx, ctr), uuid ids drawn
\* so far, and the value the call returns
TaskMutate(o, g, idx, ctr, uuid) ==
    LET same == [graph |-> g, idx |-> idx, ctr |-> ctr, uuid |-> uuid, res |-> "True"]
    IN  IF o.op = "create_node"
        THEN [same EXCEPT
                !.graph = AddNode(g, o.node_id, [node_id |-> o.node_id, label |-> "Rule"]),
                !.idx = Merge(idx, ("Rule" :> (Get(idx, "Rule", {}) \cup {o.node_id}))),
                !.res = o.node_id]
        ELSE IF o.op = "update_node"
        THEN [same EXCEPT !.graph = [g EXCEPT !.attrs[o.node_id] = Merge(@, o.properties)]]
        ELSE IF o.op = "delete_node"
        THEN [same EXCEPT
                !.graph = RemoveNode(g, o.node_id),
                !.idx = DiscardFromIndex(idx, Get(g.attrs[o.node_id], "label", None),
                                         o.node_id)]
        ELSE IF o.op = "create_relationship"
        THEN [same EXCEPT
                !.graph = AddEdge(g, o.start_node_id, o.end_node_id,
                                  Merge([rel_id |-> Uuid(uuid + 1),
                                         type |-> o.relationship_type,
                                         start_node_id |-> o.start_node_id,
                                         end_node_id |-> o.end_node_id],
                                        o.properties)),
                !.ctr = ctr + 1,
                !.uuid = uuid + 1,
                !.res = Uuid(uuid + 1)]
        ELSE IF o.op = "delete_relationship"
        THEN [same EXCEPT
                !.graph = RemoveEdge(g, CHOOSE e \in RelHits(g, o.relationship_id) : TRUE)]
        ELSE [same EXCEPT !.graph = EmptyGraph, !.idx = EmptyMap, !.ctr = 0, !.res = None]

Gathered == tasks.pc # <<>>
Settled == \A t \in DOMAIN tasks.pc : tasks.pc[t] = "done"

\* how many ids the create_relationship calls among os draw at most
Draws(os) == Cardinality({i \in DOMAIN os : os[i].op = "create_relationship"})

\* await asyncio.gather(op1, op2): both coroutines become tasks
Gather(o1, o2) ==
    /\ uuidNext + Draws(<<o1, o2>>) <= MaxUuid
    /\ tasks' = [running |-> 0,
                 pc   |-> <<"idle", "idle">>,
                 op   |-> <<o1, o2>>,
                 res  |-> <<None, None>>,
                 base |-> [conn |-> connected, graph |-> graph,
                           idx |-> nodesByLabel, ctr |-> relCounter,
                           uuid |-> uuidNext, fs |-> FS, res |-> <<>>]]
    /\ last' = Returned("gather", [ops |-> <<o1, o2>>], None)
    /\ UNCHANGED <<mem, fs, uuidNext, created>>

\* the loop starts task t: the operation runs its checks
Check(t) ==
    /\ tasks.running = 0
    /\ t \in DOMAIN tasks.pc
    /\ tasks.pc[t] = "idle"
    /\ LET c == TaskCheck(tasks.op[t], connected, graph)
       IN  tasks' = IF c = "go"
                    THEN [tasks EXCEPT !.pc[t] = "mutate", !.running = t]
                    ELSE [tasks EXCEPT !.pc[t] = "done", !.res[t] = c]
    /\ UNCHANGED <<mem, fs, uuidNext, created, last>>

\* the mutation, then "if self.auto_save: await self._save_graph()"
Mutate(t) ==
    /\ tasks.running = t
    /\ tasks.pc[t] = "mutate"
    /\ LET o == tasks.op[t]
           m == TaskMutate(o, graph, nodesByLabel, relCounter, uuidNext)
       IN  /\ graph' = m.graph
           /\ nodesByLabel' = m.idx
           /\ relCounter' = m.ctr
           /\ uuidNext' = m.uuid
           /\ created' = IF o.op = "create_node"
                         THEN Merge(created, (o.node_id :> "Rule"))
                         ELSE IF o.op = "delete_node"
                         THEN Without(created, {o.node_id})
                         ELSE IF o.op = "clear_all_data" THEN EmptyMap
                         ELSE created
           /\ tasks' = IF autoSave
                       THEN [tasks EXCEPT !.pc[t] = "save", !.res[t] = m.res,
                                          !.running = IF Yields("_save_graph")
                                                      THEN 0 ELSE t]
                       ELSE [tasks EXCEPT !.pc[t] = "done", !.res[t] = m.res,
                                          !.running = 0]
    /\ UNCHANGED <<connected, fs, last>>

\* _save_graph up to the return of "await self._create_backup()"
Rotate(t) ==
    /\ t \in DOMAIN tasks.pc
    /\ tasks.pc[t] = "save"
    /\ tasks.running \in {0, t}
    /\ LET rot == BackupSteps(FS, backupCount)
       IN  SetFS(IF rot = <<>> THEN FS ELSE Last(rot))
    /\ tasks' = [tasks EXCEPT !.pc[t] = "write",
                              !.running = IF Yields("_create_backup") THEN 0 ELSE t]
    /\ UNCHANGED <<mem, uuidNext, created, last>>

\* the rest of _save_graph: the document of the memory as it is now goes to
\* the temporary file and replaces the data file; the operation returns
Write(t) ==
    /\ t \in DOMAIN tasks.pc
    /\ tasks.pc[t] = "write"
    /\ tasks.running \in {0, t}
    /\ SetFS(Last(WriteSteps(FS, Encode(graph, nodesByLabel, relCounter))))
    /\ tasks' = [tasks EXCEPT !.pc[t] = "done", !.running = 0]
    /\ UNCHANGED <<mem, uuidNext, created, last>>

InitTasks ==
    /\ InitHandle
    /\ autoSave \in BOOLEAN
    /\ backupCount \in {0, 1}
    /\ dataFile = Absent

\* a call the caller awaits on its own, no task pending
TickCall ==
    /\ Settled
    /\ ops < MaxOpsTasks
    /\ ops' = ops + 1
    /\ UNCHANGED <<cfg, peer, tasks>>

TickGather ==
    /\ Settled
    /\ ops < MaxOpsTasks
    /\ ops' = ops + 1
    /\ UNCHANGED <<cfg, peer>>

\* one step of a task inside a gather
TickStep == UNCHANGED <<ops, cfg, peer>>

NextTasks ==
    \/ TickCall /\ Connect
    \/ \E o1 \in TaskOps, o2 \in TaskOps : TickGather /\ Gather(o1, o2)
    \/ \E t \in TaskIds : TickStep /\ Check(t)
    \/ \E t \in TaskIds : TickStep /\ Mutate(t)
    \/ \E t \in TaskIds : TickStep /\ Rotate(t)
    \/ \E t \in TaskIds : TickStep /\ Write(t)

SpecTasks == InitTasks /\ [][NextTasks]_vars

\* one operation run from its check to its return on s = [conn, graph, idx,
\* ctr, uuid, fs, res], its result appended to s.res
RunWhole(s, o, auto, n) ==
    LET c == TaskCheck(o, s.conn, s.graph)
        m == TaskMutate(o, s.graph, s.idx, s.ctr, s.uuid)
    IN  IF c # "go"
        THEN [s EXCEPT !.res = Append(@, c)]
        ELSE [s EXCEPT !.graph = m.graph,
                       !.idx = m.idx,
                       !.ctr = m.ctr,
                       !.uuid = m.uuid,
                       !.fs = IF auto
                              THEN SaveGraph(@, Encode(m.graph, m.idx, m.ctr), n, NoFault).fs
                              ELSE @,
                       !.res = Append(@, m.res)]

\* the two operations of the gather run one after the other, task `first`
\* first; res lists the results by task
SeqOutcome(first, second) ==
    LET s1 == RunWhole(tasks.base, tasks.op[first], autoSave, backupCount)
        s2 == RunWhole(s1, tasks.op[second], autoSave, backupCount)
    IN  [s2 EXCEPT !.res = IF first = 1 THEN <<s2.res[1], s2.res[2]>>
                           ELSE <<s2.res[2], s2.res[1]>>]

Outcome ==
    [conn |-> connected, graph |-> graph, idx |-> nodesByLabel,
     ctr |-> relCounter, uuid |-> uuidNext, fs |-> FS, res |-> tasks.res]

\* no task is between its check and its return while another one is
OneInFlight ==
    Cardinality({t \in DOMAIN tasks.pc : tasks.pc[t] \notin {"idle", "done"}}) <= 1

\* C30: of the operations several tasks issue on one handle on one event
\* loop, at most one is between its check and its return at any time; when
\* all have returned (and no further call was made), memory, files and
\* results are those of the operations run one after the other in some
\* order, and with auto_save on the data file decodes to the memory.
C30_OperationsAtomic ==
    /\ OneInFlight
    /\ (Gathered /\ Settled /\ last.op = "gather")
         => /\ Outcome \in {SeqOutcome(1, 2), SeqOutcome(2, 1)}
            /\ autoSave => Loaded(dataFile) = Memory
====
